---- MODULE Spec2Model ----
(***************************************************************************)
(* Extraction and caching pipeline of app/services/textract.py             *)
(* (TextractService): head probe, cache decision against the DynamoDB      *)
(* record, cached-blob reuse, asynchronous Textract job with status        *)
(* polling, text cleaning, best-effort Bedrock structured extraction and   *)
(* best-effort persistence to S3 and DynamoDB.                             *)
(*                                                                         *)
(* Conventions: Python None of an ETag, key or dict is the empty tuple     *)
(* <<>>, a missing identifier is "" (both are falsy in the code); texts    *)
(* are sequences of one-character strings; S3 bodies are sequences of      *)
(* bytes (text blobs) or of JSON tokens (JSON blobs).                      *)
(***************************************************************************)
EXTENDS Integers, Sequences, FiniteSets, TLC

(***************************************************************************)
(* Bounds of the model                                                     *)
(***************************************************************************)
\* number of distinct content versions (ETags) the source object can take
NumEtags == 2
\* longest single get_document_text_detection call, in seconds (polling model)
MaxCallDur == 1

Etags == { <<"etag", i>> : i \in 1..NumEtags }
DocTypes == {"cv", "jd"}
None == <<>>

(***************************************************************************)
(* Text: characters, UTF-8 conversion and _clean_text                      *)
(***************************************************************************)
\* "/" stands for every character outside the allow-list of _clean_text
Whitespace == {" ", "\n"}
Allowed == {"a", "b", "I", "O", " ", "\n", "|", "0"}

RECURSIVE DropLeadingWs(_)
DropLeadingWs(s) ==
  IF s = <<>> THEN <<>>
  ELSE IF Head(s) \in Whitespace THEN DropLeadingWs(Tail(s)) ELSE s

RECURSIVE DropLeadingSp(_)
DropLeadingSp(s) ==
  IF s = <<>> THEN <<>>
  ELSE IF Head(s) = " " THEN DropLeadingSp(Tail(s)) ELSE s

\* re.sub(r'\s+', ' ', text)
RECURSIVE SubWhitespace(_)
SubWhitespace(s) ==
  IF s = <<>> THEN <<>>
  ELSE IF Head(s) \in Whitespace
       THEN <<" ">> \o SubWhitespace(DropLeadingWs(Tail(s)))
       ELSE <<Head(s)>> \o SubWhitespace(Tail(s))

\* re.sub(r' +', ' ', text)
RECURSIVE SubSpaces(_)
SubSpaces(s) ==
  IF s = <<>> THEN <<>>
  ELSE IF Head(s) = " "
       THEN <<" ">> \o SubSpaces(DropLeadingSp(Tail(s)))
       ELSE <<Head(s)>> \o SubSpaces(Tail(s))

\* re.sub(r'[^\w\s...]', '', text)
RemoveArtifacts(s) == SelectSeq(s, LAMBDA c : c \in Allowed)

\* text.replace('|', 'I'); text.replace('0', 'O')
FixOcrErrors(s) ==
  [i \in 1..Len(s) |-> IF s[i] = "|" THEN "I" ELSE IF s[i] = "0" THEN "O" ELSE s[i]]

Reverse(s) == [i \in 1..Len(s) |-> s[Len(s) + 1 - i]]

\* str.strip()
Strip(s) == Reverse(DropLeadingWs(Reverse(DropLeadingWs(s))))

\* variant: without the second collapse of spaces
_clean_text_NoSecondCollapse(text) ==
  Strip(FixOcrErrors(RemoveArtifacts(SubWhitespace(text))))

_clean_text(text) ==
  Strip(SubSpaces(FixOcrErrors(RemoveArtifacts(SubWhitespace(text)))))

\* _process_extracted_text(...)["processed_text"]
ProcessedText(raw_text) == _clean_text(raw_text)

\* str.encode("utf-8") on the characters of the model (all ASCII: one byte each)
CharCode(c) ==
  CASE c = "a" -> 97 [] c = "b" -> 98 [] c = "I" -> 73 [] c = "O" -> 79
    [] c = " " -> 32 [] c = "\n" -> 10 [] c = "|" -> 124 [] c = "0" -> 48
    [] c = "/" -> 47
Utf8Encode(s) == [i \in 1..Len(s) |-> CharCode(s[i])]

\* bytes.decode('utf-8', errors='ignore'): bytes that decode to no character are dropped
CodeChars == {"a", "b", "I", "O", " ", "\n", "|", "0", "/"}
Utf8DecodeIgnore(bytes) ==
  LET valid == SelectSeq(bytes, LAMBDA n : \E c \in CodeChars : CharCode(c) = n)
  IN  [i \in 1..Len(valid) |-> CHOOSE c \in CodeChars : CharCode(c) = valid[i]]

(***************************************************************************)
(* The source document: what Textract detects in each content version      *)
(***************************************************************************)
Block(type, text, conf) == [BlockType |-> type, Text |-> text, Confidence |-> conf]

\* Blocks of the finished job for the version with the given ETag
DocBlocks(etag) ==
  IF etag[2] = 1
  THEN << Block("PAGE", <<>>, 0),
          Block("LINE", <<"a", "/", " ">>, 90),
          Block("LINE", <<" ", "|", "0">>, 100) >>
  ELSE IF etag[2] = 2
  THEN << Block("PAGE", <<>>, 0),
          Block("LINE", <<"b", " ", " ", "0">>, 80) >>
  ELSE << Block("PAGE", <<>>, 0) >>

RECURSIVE JoinLines(_)
\* '\n'.join(text_blocks)
JoinLines(lines) ==
  IF lines = <<>> THEN <<>>
  ELSE IF Len(lines) = 1 THEN lines[1]
  ELSE lines[1] \o <<"\n">> \o JoinLines(Tail(lines))

RECURSIVE SumSeq(_)
SumSeq(s) == IF s = <<>> THEN 0 ELSE Head(s) + SumSeq(Tail(s))

LineBlocks(blocks) == SelectSeq(blocks, LAMBDA b : b.BlockType = "LINE")
\* extracted_text of _extract_text_async
ExtractedText(blocks) ==
  JoinLines([i \in 1..Len(LineBlocks(blocks)) |-> LineBlocks(blocks)[i].Text])
\* avg_confidence of _extract_text_async
AvgConfidence(blocks) ==
  LET scores == [i \in 1..Len(LineBlocks(blocks)) |-> LineBlocks(blocks)[i].Confidence]
  IN  IF scores # <<>> THEN SumSeq(scores) \div Len(scores) ELSE 0

(***************************************************************************)
(* _extract_structured_json: the Bedrock reply and its parsing             *)
(***************************************************************************)
\* What the generative backend does in one call: the model ARN is not
\* configured, converse() raises, or it answers with a text (a token sequence)
ReplyTexts ==
  { <<"{", "k", "}">>,                       \* a JSON object
    <<"[fence]json", "{", "k", "}", "[fence]">>,     \* the same inside a json code fence
    <<"[fence]", "{", "k", "}", "[fence]">>,         \* fenced without the language tag
    <<"{", "}">>,                            \* the empty object
    <<"[", "]">>,                            \* valid JSON, not an object
    <<"x">> }                                \* not JSON
BedrockReplies ==
  { [kind |-> "no_model_arn", text |-> <<>>], [kind |-> "converse_raises", text |-> <<>>] }
    \cup { [kind |-> "text", text |-> t] : t \in ReplyTexts }

\* response_text.replace(<json fence>, "")
RemoveJsonFence(t) == SelectSeq(t, LAMBDA tok : tok # "[fence]json")
RECURSIVE RStripFence(_)
\* response_text.rstrip(<fence>)
RStripFence(t) ==
  IF t = <<>> THEN <<>>
  ELSE IF t[Len(t)] = "[fence]" THEN RStripFence(SubSeq(t, 1, Len(t) - 1)) ELSE t

\* json.loads succeeds and isinstance(parsed, dict)
JsonObjects == { <<"{", "}">>, <<"{", "k", "}">> }

\* variant: the parsed value returned without the isinstance(parsed, dict) test
_extract_structured_json_AnyJson(reply) ==
  IF reply.kind = "no_model_arn" THEN None
  ELSE IF reply.kind = "converse_raises" THEN None
  ELSE LET t1 == IF reply.text # <<>> /\ reply.text[1] = "[fence]json"
                 THEN RemoveJsonFence(reply.text) ELSE reply.text
           t2 == IF t1 # <<>> /\ t1[Len(t1)] = "[fence]" THEN RStripFence(t1) ELSE t1
       IN  IF t2 \in JsonObjects \cup { <<"[", "]">> } THEN <<t2>> ELSE None

\* Returns <<dict>> or None; the dict is kept as its JSON tokens
_extract_structured_json(reply) ==
  IF reply.kind = "no_model_arn" THEN None
  ELSE IF reply.kind = "converse_raises" THEN None
  ELSE LET t1 == IF reply.text # <<>> /\ reply.text[1] = "[fence]json"
                 THEN RemoveJsonFence(reply.text) ELSE reply.text
           t2 == IF t1 # <<>> /\ t1[Len(t1)] = "[fence]" THEN RStripFence(t1) ELSE t1
       IN  IF t2 \in JsonObjects THEN <<t2>> ELSE None

\* Python truthiness of "structured_json": neither None nor the empty dict
Truthy(structured_json) == structured_json # None /\ structured_json[1] # <<"{", "}">>

\* json.dumps(structured_json).encode("utf-8"), kept as the JSON tokens
JsonBody(structured_json) == structured_json[1]

(***************************************************************************)
(* Keys of the derived blobs                                               *)
(***************************************************************************)
UserId == "u1"
FileId == "f1"
NoId == ""

ExtractKey(document_type, user_id, file_id) ==
  << IF document_type = "cv" THEN "Textract/CV_extract" ELSE "Textract/JD_extract",
     user_id, file_id, ".txt" >>
ProcessedKey(document_type, user_id, file_id) ==
  << IF document_type = "cv" THEN "Processed/CV_Json" ELSE "Processed/JD_Json",
     user_id, file_id, ".json" >>

Keys == { ExtractKey(t, UserId, FileId) : t \in DocTypes }
          \cup { ProcessedKey(t, UserId, FileId) : t \in DocTypes }

NoObject == [exists |-> FALSE, body |-> <<>>]
Object(body) == [exists |-> TRUE, body |-> body]

(***************************************************************************)
(* Results                                                                 *)
(***************************************************************************)
\* variant: a result without text is reported as a failure
AsyncSuccess_EmptyIsError(blocks) ==
  [success |-> ExtractedText(blocks) # <<>>, text |-> ExtractedText(blocks),
   confidence |-> AvgConfidence(blocks),
   method |-> "async", error |-> <<"No text detected">>]

\* The dict returned by _extract_text_async on success
AsyncSuccess(blocks) ==
  [success |-> TRUE, text |-> ExtractedText(blocks), confidence |-> AvgConfidence(blocks),
   method |-> "async", error |-> <<>>]
\* ... and from its exception handlers
AsyncFailure(error) ==
  [success |-> FALSE, text |-> <<>>, confidence |-> 0, method |-> "", error |-> error]

\* variant: the failure raised without the backend's message
JobFailedError_NoMessage(status_message) == <<"Textract job failed">>

\* str(e) of the exceptions raised inside the polling loop
JobFailedError(status_message) == <<"Textract job failed: ">> \o status_message
TimedOutError == <<"Textract job timed out">>
UnknownStatusError(job_status) == <<"Unknown job status: ", job_status>>
ClientErrorText(code) == <<"Textract error: ", code>>

\* The dict returned by extract_text_from_s3
SuccessResult(text, raw_text, confidence, method, structured_json, processed_key) ==
  [success |-> TRUE, text |-> text, raw_text |-> raw_text, confidence |-> confidence,
   extraction_method |-> method, structured_json |-> structured_json,
   structured_json_s3_key |-> processed_key, error |-> <<>>]
FailureResult(error) ==
  [success |-> FALSE, text |-> <<>>, raw_text |-> <<>>, confidence |-> 0,
   extraction_method |-> "", structured_json |-> None,
   structured_json_s3_key |-> None, error |-> error]
NoResult == FailureResult(<<"pending">>)

(***************************************************************************)
(* State                                                                   *)
(***************************************************************************)
VARIABLES
  srcEtag,        \* ETag of the source object as it is now in S3
  srcHasMeta,     \* the source object carries user_id/file_id metadata
  use_dynamodb,   \* get_dynamodb_resource() returns a resource (settings.use_dynamodb)
  docType,        \* document_type the callers pass for this file ("cv" or "jd")
  s3,             \* derived blobs: key -> [exists, body]
  item,           \* the cv_uploads item of the file_id
  pc,             \* position of the extract_text_from_s3 call in flight
  call,           \* its arguments, locals and what its I/O did
  result,         \* the dict it returns
  pre,            \* s3 and item as they were when the call started
  prev,           \* summary of the previous finished call
  job             \* the polling loop of _extract_text_async (polling model)

\* State of the specifications that study one operation on its own
VARIABLES
  doc,            \* Blocks of the result response of one finished OCR job
  parked,         \* the second of two concurrent calls: its pc, call, result, pre
  loop,           \* the event loop's thread, an extraction task and another task
  user_status,    \* User.status of the one user of the authentication model
  redis,          \* the Redis client: reachable or not, and the set jwt:blacklist
  issued,         \* the JWTs returned to the client so far: issued[jti] is the type
  sessions,       \* the user_sessions table, in order of creation
  last,           \* the last authentication request and its response
  refreshed,      \* refresh tokens a successful refresh was made with
  logged_out,     \* access tokens a successful logout was made with
  clean,          \* a text, _clean_text of it, and what a cache hit makes of that
  pw,             \* a password and what validate_password_strength returns for it
  rl,             \* the clock, rate_limit_store of one client IP, requests in flight
  rp,             \* the users item, the two token tables, the last reset request
  otp             \* one OTP record, the user's verification, the last verify call

\* the variables of the authentication model
authVars == <<user_status, redis, issued, sessions, last, refreshed, logged_out>>

\* the variables of the models of single functions and flows
extra == <<clean, pw, rl, rp, otp>>

\* the variables the extraction pipeline leaves alone
aside == <<doc, parked, loop, authVars, extra>>

\* the variables of the extraction pipeline
pipeline ==
  <<srcEtag, srcHasMeta, use_dynamodb, docType, s3, item, pc, call, result, pre, prev, job>>

vars == <<srcEtag, srcHasMeta, use_dynamodb, docType, s3, item, pc, call, result, pre, prev, job,
          aside>>

\* No item for the file_id. The item process_cv_upload creates carries none of the
\* attributes below; the pipeline reads source_etag only, so it behaves as this one.
NoItem ==
  [exists |-> FALSE, source_etag |-> None, extract_key |-> None,
   processed_json_key |-> None, document_type |-> "", last_extracted_at |-> ""]

NoCall ==
  [force |-> FALSE, document_type |-> "cv", head |-> "none",
   source_user_id |-> NoId, source_file_id |-> NoId, source_etag |-> None,
   extract_key |-> None, lookup |-> "none", etag_matches |-> TRUE,
   read |-> "none", ocr |-> "none", text |-> <<>>, confidence |-> 0,
   method |-> "", processed_text |-> <<>>, bedrock |-> "none",
   structured_json |-> None, processed_key |-> None,
   raw_put |-> "none", json_put |-> "none", index_update |-> "none"]

NoPrev ==
  [valid |-> FALSE, success |-> FALSE, text |-> <<>>, method |-> "",
   source_etag |-> None, force |-> FALSE, faultless |-> FALSE]

NoJob ==
  [pc |-> "idle", elapsed_time |-> 0, wall |-> 0, polls |-> 0,
   failed |-> FALSE, status_message |-> None, polled_after_failed |-> FALSE,
   timed_out |-> FALSE, result |-> AsyncFailure(<<"pending">>)]

\* a call that has not started
NoParked ==
  [pc |-> "idle", call |-> NoCall, result |-> NoResult,
   pre |-> [s3 |-> [k \in Keys |-> NoObject], item |-> NoItem]]

\* the event loop with nothing running: both tasks are ready to be run
NoLoop ==
  [thread |-> "idle", extract |-> "ready", elapsed_time |-> 0, other |-> 0]

\* the value of the variable of a model that is not the one under study
Unused == <<>>

\* no text under study
NoClean == [stage |-> "none", text |-> <<>>, once |-> <<>>, twice |-> <<>>]

\* the models of single functions and flows at rest
ExtraIdle ==
  /\ clean = NoClean
  /\ pw = Unused
  /\ rl = Unused
  /\ rp = Unused
  /\ otp = Unused

\* no authentication request made yet
NoLast ==
  [op |-> "none", ok |-> FALSE, detail |-> "", presented |-> 0,
   access_token |-> 0, refresh_token |-> 0, before |-> <<>>]

\* a registered user who has not verified the e-mail address; nothing issued
AuthIdle ==
  /\ user_status = "pending_verification"
  /\ redis = [up |-> FALSE, blacklist |-> {}]
  /\ issued = <<>>
  /\ sessions = <<>>
  /\ last = NoLast
  /\ refreshed = {}
  /\ logged_out = {}

Init ==
  /\ srcEtag \in Etags
  /\ srcHasMeta \in BOOLEAN
  /\ use_dynamodb \in BOOLEAN
  /\ docType \in DocTypes
  /\ s3 = [k \in Keys |-> NoObject]
  /\ item = NoItem
  /\ pc = "idle"
  /\ call = NoCall
  /\ result = NoResult
  /\ pre = [s3 |-> s3, item |-> item]
  /\ prev = NoPrev
  /\ job = NoJob
  /\ doc = <<>>
  /\ parked = NoParked
  /\ loop = NoLoop
  /\ AuthIdle
  /\ ExtraIdle

(***************************************************************************)
(* Environment: re-upload of the source under the same key and file_id.    *)
(* Only head_object and the Textract job read the source object, and no    *)
(* step of a call writes it, so a re-upload at any other point of a call   *)
(* commutes with the steps up to the next of these two reads: it is taken  *)
(* between calls or right before the job is started.                       *)
(***************************************************************************)
Reupload ==
  /\ pc \in {"idle", "ocr"}
  /\ \E e \in Etags \ {srcEtag} : srcEtag' = e
  /\ UNCHANGED <<aside, srcHasMeta, use_dynamodb, docType, s3, item, pc, call, result, pre, prev, job>>

(***************************************************************************)
(* extract_text_from_s3(s3_key, document_type, force)                      *)
(***************************************************************************)
StartCall ==
  /\ pc = "idle"
  /\ \E f \in BOOLEAN :
       call' = [NoCall EXCEPT !.force = f, !.document_type = docType]
  /\ pc' = "head"
  /\ result' = NoResult
  /\ pre' = [s3 |-> s3, item |-> item]
  /\ UNCHANGED <<aside, srcEtag, srcHasMeta, use_dynamodb, docType, s3, item, prev, job>>

\* where the call goes after the head probe and the key computation
AfterHead(force, extract_key) ==
  IF ~force /\ extract_key # None THEN "lookup" ELSE "ocr"

\* variant: the identifiers taken from elsewhere than the probe's metadata
MetadataId_NoProbe(ok, has_meta, id) == IF has_meta THEN id ELSE NoId

\* md.get(...) after head_object: the identifier, or None when the probe raised
MetadataId(ok, has_meta, id) == IF ok /\ has_meta THEN id ELSE NoId

\* head_object, the metadata it yields and the extract key
HeadProbe ==
  /\ pc = "head"
  /\ \E ok \in BOOLEAN :
       LET uid == MetadataId(ok, srcHasMeta, UserId)
           fid == MetadataId(ok, srcHasMeta, FileId)
           ek  == IF uid # NoId /\ fid # NoId
                  THEN ExtractKey(call.document_type, uid, fid) ELSE None
       IN  /\ call' = [call EXCEPT !.head = IF ok THEN "ok" ELSE "failed",
                                   !.source_user_id = uid,
                                   !.source_file_id = fid,
                                   !.source_etag = IF ok THEN srcEtag ELSE None,
                                   !.extract_key = ek]
           /\ pc' = AfterHead(call.force, ek)
  /\ UNCHANGED <<aside, srcEtag, srcHasMeta, use_dynamodb, docType, s3, item, result, pre, prev, job>>

\* variant: the comparison of the stored etag inverted
EtagMatches_Inverted(it, source_etag) ==
  IF it.exists /\ it.source_etag # None /\ source_etag # None
  THEN it.source_etag # source_etag
  ELSE TRUE

\* etag_matches as computed from the item that get_item returned
EtagMatches(it, source_etag) ==
  IF it.exists /\ it.source_etag # None /\ source_etag # None
  THEN it.source_etag = source_etag
  ELSE TRUE

\* variant: an exception of the lookup reaches the caller as a failure
IndexLookup_Propagates ==
  /\ pc = "lookup"
  /\ \E raised \in BOOLEAN :
       LET m == IF ~use_dynamodb THEN TRUE ELSE EtagMatches(item, call.source_etag)
       IN  /\ call' = [call EXCEPT !.etag_matches = m,
                                   !.lookup = IF ~use_dynamodb THEN "disabled"
                                              ELSE IF raised THEN "raised" ELSE "ok"]
           /\ pc' = IF use_dynamodb /\ raised THEN "done"
                    ELSE IF m THEN "cache_read" ELSE "ocr"
           /\ result' = IF use_dynamodb /\ raised THEN FailureResult(<<"get_item">>)
                        ELSE result
  /\ UNCHANGED <<aside, srcEtag, srcHasMeta, use_dynamodb, docType, s3, item, pre, prev, job>>

\* the DynamoDB validation of the stored etag
IndexLookup ==
  /\ pc = "lookup"
  /\ \E raised \in BOOLEAN :
       LET m == IF ~use_dynamodb \/ raised THEN TRUE
                ELSE EtagMatches(item, call.source_etag)
       IN  /\ call' = [call EXCEPT !.etag_matches = m,
                                   !.lookup = IF ~use_dynamodb THEN "disabled"
                                              ELSE IF raised THEN "raised" ELSE "ok"]
           /\ pc' = IF m THEN "cache_read" ELSE "ocr"
  /\ UNCHANGED <<aside, srcEtag, srcHasMeta, use_dynamodb, docType, s3, item, result, pre, prev, job>>

\* identifiers needed to persist the structured JSON
HasIds(c) == c.source_user_id # NoId /\ c.source_file_id # NoId

\* get_object of the cached extract and Body.read(); the outer handler on other errors
ReadOutcomes(obj) ==
  (IF obj.exists THEN {"ok"} ELSE {"NoSuchKey"}) \cup {"ClientError", "IOError"}

\* is the outcome of the cached read handled by "except ClientError"
CaughtAsClientError(outcome) == outcome \in {"NoSuchKey", "ClientError"}

\* variant: a blob that cannot be read is deleted before OCR is tried
CacheRead_EvictsOnError ==
  /\ pc = "cache_read"
  /\ \E outcome \in ReadOutcomes(s3[call.extract_key]) :
       IF outcome = "ok"
       THEN /\ call' = [call EXCEPT !.read = outcome,
                          !.text = Utf8DecodeIgnore(s3[call.extract_key].body)]
            /\ pc' = "cache_structured"
            /\ UNCHANGED <<result, s3>>
       ELSE IF CaughtAsClientError(outcome)
       THEN /\ call' = [call EXCEPT !.read = outcome]
            /\ pc' = "ocr"
            /\ s3' = [s3 EXCEPT ![call.extract_key] = NoObject]
            /\ UNCHANGED result
       ELSE /\ call' = [call EXCEPT !.read = outcome]
            /\ pc' = "done"
            /\ result' = FailureResult(<<outcome>>)
            /\ UNCHANGED s3
  /\ UNCHANGED <<aside, srcEtag, srcHasMeta, use_dynamodb, docType, item, pre, prev, job>>

CacheRead ==
  /\ pc = "cache_read"
  /\ \E outcome \in ReadOutcomes(s3[call.extract_key]) :
       IF outcome = "ok"
       THEN /\ call' = [call EXCEPT !.read = outcome,
                          !.text = Utf8DecodeIgnore(s3[call.extract_key].body)]
            /\ pc' = "cache_structured"
            /\ UNCHANGED result
       ELSE IF CaughtAsClientError(outcome)
       THEN /\ call' = [call EXCEPT !.read = outcome]
            /\ pc' = "ocr"
            /\ UNCHANGED result
       ELSE /\ call' = [call EXCEPT !.read = outcome]
            /\ pc' = "done"
            /\ result' = FailureResult(<<outcome>>)
  /\ UNCHANGED <<aside, srcEtag, srcHasMeta, use_dynamodb, docType, s3, item, pre, prev, job>>

\* ghost: the generative step failed: model not configured, transport error,
\* or an answer that is not the JSON text of an object
BedrockFailed(reply) ==
  \/ reply.kind \in {"no_model_arn", "converse_raises"}
  \/ reply.text \in { <<"x">>, <<"[", "]">>, <<"[fence]", "{", "k", "}", "[fence]">> }

\* _process_extracted_text and _extract_structured_json on the cached text
CacheStructured ==
  /\ pc = "cache_structured"
  /\ \E reply \in BedrockReplies :
       LET sj == _extract_structured_json(reply)
           c1 == [call EXCEPT !.processed_text = ProcessedText(call.text),
                              !.structured_json = sj,
                              !.bedrock = IF BedrockFailed(reply) THEN "failed" ELSE "ok"]
       IN  IF Truthy(sj) /\ HasIds(call)
           THEN /\ call' = c1
                /\ pc' = "cache_put_json"
                /\ UNCHANGED result
           ELSE /\ call' = c1
                /\ pc' = "done"
                /\ result' = SuccessResult(c1.processed_text, c1.text, 0, "cache", sj, None)
  /\ UNCHANGED <<aside, srcEtag, srcHasMeta, use_dynamodb, docType, s3, item, pre, prev, job>>

\* variant: a failed put of the structured JSON ends the call without a result
PutStructured_Raises(next) ==
  \E ok \in BOOLEAN :
    LET pk == ProcessedKey(call.document_type, call.source_user_id, call.source_file_id)
    IN  /\ call' = [call EXCEPT !.processed_key = pk,
                                !.json_put = IF ok THEN "ok" ELSE "failed"]
        /\ s3' = IF ok THEN [s3 EXCEPT ![pk] = Object(JsonBody(call.structured_json))]
                 ELSE s3
        /\ pc' = IF ok THEN next ELSE "done"

\* put_object of the structured JSON; processed_key is assigned before the put
PutStructured(next) ==
  \E ok \in BOOLEAN :
    LET pk == ProcessedKey(call.document_type, call.source_user_id, call.source_file_id)
    IN  /\ call' = [call EXCEPT !.processed_key = pk,
                                !.json_put = IF ok THEN "ok" ELSE "failed"]
        /\ s3' = IF ok THEN [s3 EXCEPT ![pk] = Object(JsonBody(call.structured_json))]
                 ELSE s3
        /\ pc' = next

CachePutJson ==
  /\ pc = "cache_put_json"
  /\ PutStructured("cache_update")
  /\ UNCHANGED <<aside, srcEtag, srcHasMeta, use_dynamodb, docType, item, result, pre, prev, job>>

\* variant: the whole item replaced (put_item) instead of two attributes set
CacheItemUpdate_Replaces(it, c) ==
  [NoItem EXCEPT !.exists = TRUE, !.processed_json_key = c.processed_key,
                 !.last_extracted_at = "ts"]

\* update_item of the cache-hit path: SET processed_json_key, last_extracted_at
CacheItemUpdate(it, c) ==
  [it EXCEPT !.exists = TRUE, !.processed_json_key = c.processed_key,
             !.last_extracted_at = "ts"]

\* variant: the cache-hit path records the fingerprint and the extract key too
CacheUpdate_FullUpsert ==
  /\ pc = "cache_update"
  /\ \E ok \in BOOLEAN :
       LET attempted == use_dynamodb /\ call.source_file_id # NoId
       IN  /\ item' = IF attempted /\ ok
                      THEN [CacheItemUpdate(item, call) EXCEPT
                              !.source_etag = call.source_etag,
                              !.extract_key = call.extract_key]
                      ELSE item
           /\ call' = [call EXCEPT !.index_update =
                         IF ~attempted THEN "skipped" ELSE IF ok THEN "ok" ELSE "failed"]
  /\ result' = SuccessResult(call.processed_text, call.text, 0, "cache",
                             call.structured_json, call.processed_key)
  /\ pc' = "done"
  /\ UNCHANGED <<aside, srcEtag, srcHasMeta, use_dynamodb, docType, s3, pre, prev, job>>

CacheUpdate ==
  /\ pc = "cache_update"
  /\ \E ok \in BOOLEAN :
       LET attempted == use_dynamodb /\ call.source_file_id # NoId
       IN  /\ item' = IF attempted /\ ok THEN CacheItemUpdate(item, call) ELSE item
           /\ call' = [call EXCEPT !.index_update =
                         IF ~attempted THEN "skipped" ELSE IF ok THEN "ok" ELSE "failed"]
  /\ result' = SuccessResult(call.processed_text, call.text, 0, "cache",
                             call.structured_json, call.processed_key)
  /\ pc' = "done"
  /\ UNCHANGED <<aside, srcEtag, srcHasMeta, use_dynamodb, docType, s3, pre, prev, job>>

(***************************************************************************)
(* The OCR job as extract_text_from_s3 sees it                             *)
(***************************************************************************)
StatusMessages == { <<"INVALID_IMAGE_TYPE">>, <<"Access", " ", "denied">> }
\* status_response.get('StatusMessage', 'Job failed')
StatusMessageOf(m) == IF m = None THEN <<"Job failed">> ELSE m

\* every dict _extract_text_async can return for a job on the given version
AsyncOutcomes(etag) ==
  { AsyncSuccess(DocBlocks(etag)) }
    \cup { AsyncFailure(ClientErrorText(<<"start">>)), AsyncFailure(ClientErrorText(<<"poll">>)),
           AsyncFailure(TimedOutError), AsyncFailure(UnknownStatusError("PARTIAL_SUCCESS")) }
    \cup { AsyncFailure(JobFailedError(StatusMessageOf(m))) : m \in StatusMessages \cup {None} }

\* result = await self._extract_text_async(s3_key); the job reads the object as it is now
RunOcr ==
  /\ pc = "ocr"
  /\ \E r \in AsyncOutcomes(srcEtag) :
       IF r.success
       THEN /\ call' = [call EXCEPT !.ocr = "SUCCEEDED", !.text = r.text,
                                    !.confidence = r.confidence, !.method = r.method]
            /\ pc' = "structured"
            /\ UNCHANGED result
       ELSE /\ call' = [call EXCEPT !.ocr = "failed"]
            /\ pc' = "done"
            /\ result' = FailureResult(r.error)
  /\ UNCHANGED <<aside, srcEtag, srcHasMeta, use_dynamodb, docType, s3, item, pre, prev, job>>

\* _process_extracted_text and _extract_structured_json on the OCR text
Structured ==
  /\ pc = "structured"
  /\ \E reply \in BedrockReplies :
       call' = [call EXCEPT !.processed_text = ProcessedText(call.text),
                            !.structured_json = _extract_structured_json(reply),
                            !.bedrock = IF BedrockFailed(reply) THEN "failed" ELSE "ok"]
  /\ pc' = "put_raw"
  /\ UNCHANGED <<aside, srcEtag, srcHasMeta, use_dynamodb, docType, s3, item, result, pre, prev, job>>

\* put_object of the cleaned text at extract_key
PutRaw ==
  /\ pc = "put_raw"
  /\ IF call.extract_key # None
     THEN \E ok \in BOOLEAN :
            /\ s3' = IF ok THEN [s3 EXCEPT ![call.extract_key] =
                                    Object(Utf8Encode(call.processed_text))]
                     ELSE s3
            /\ call' = [call EXCEPT !.raw_put = IF ok THEN "ok" ELSE "failed"]
     ELSE /\ s3' = s3
          /\ call' = [call EXCEPT !.raw_put = "skipped"]
  /\ pc' = "put_json"
  /\ UNCHANGED <<aside, srcEtag, srcHasMeta, use_dynamodb, docType, item, result, pre, prev, job>>

PutJson ==
  /\ pc = "put_json"
  /\ IF Truthy(call.structured_json) /\ HasIds(call)
     THEN PutStructured("update")
     ELSE /\ call' = [call EXCEPT !.json_put = "skipped"]
          /\ s3' = s3
          /\ pc' = "update"
  /\ UNCHANGED <<aside, srcEtag, srcHasMeta, use_dynamodb, docType, item, result, pre, prev, job>>

\* variant: the update expression without "source_etag = :etag"
ItemUpdate_NoEtag(it, c) ==
  [it EXCEPT !.exists = TRUE, !.extract_key = c.extract_key, !.last_extracted_at = "ts",
             !.document_type = c.document_type]

\* update_item of the OCR path
ItemUpdate(it, c) ==
  LET base == [it EXCEPT !.exists = TRUE, !.source_etag = c.source_etag,
                         !.extract_key = c.extract_key, !.last_extracted_at = "ts",
                         !.document_type = c.document_type]
  IN  IF Truthy(c.structured_json) /\ HasIds(c)
      THEN [base EXCEPT !.processed_json_key =
              ProcessedKey(c.document_type, c.source_user_id, c.source_file_id)]
      ELSE base

UpdateIndex ==
  /\ pc = "update"
  /\ \E ok \in BOOLEAN :
       LET attempted == use_dynamodb /\ call.source_file_id # NoId
       IN  /\ item' = IF attempted /\ ok THEN ItemUpdate(item, call) ELSE item
           /\ call' = [call EXCEPT !.index_update =
                         IF ~attempted THEN "skipped" ELSE IF ok THEN "ok" ELSE "failed"]
  /\ result' = SuccessResult(call.processed_text, call.text, call.confidence, call.method,
                             call.structured_json, call.processed_key)
  /\ pc' = "done"
  /\ UNCHANGED <<aside, srcEtag, srcHasMeta, use_dynamodb, docType, s3, pre, prev, job>>

\* ghost: none of the S3/DynamoDB operations the cache depends on failed in the call
Faultless(c) ==
  /\ c.head = "ok"
  /\ c.lookup # "raised"
  /\ c.read \notin {"ClientError", "IOError"}
  /\ c.raw_put # "failed"
  /\ c.index_update # "failed"

\* the caller receives the result; the next call may start
Finish ==
  /\ pc = "done"
  /\ prev' = [valid |-> TRUE, success |-> result.success, text |-> result.text,
              method |-> result.extraction_method, source_etag |-> call.source_etag,
              force |-> call.force, faultless |-> Faultless(call)]
  /\ pc' = "idle"
  /\ call' = NoCall
  /\ result' = NoResult
  /\ pre' = [s3 |-> s3, item |-> item]
  /\ UNCHANGED <<aside, srcEtag, srcHasMeta, use_dynamodb, docType, s3, item, job>>

(***************************************************************************)
(* _extract_text_async in detail: start, polling loop, result fetch.       *)
(* job.wall is the wall-clock time in seconds since the loop was entered;  *)
(* a status call takes 0..MaxCallDur seconds, a sleep wait_interval.       *)
(***************************************************************************)
max_wait_time == 300
wait_interval == 5

\* what one get_document_text_detection call inside the loop can yield
PollReplies ==
  { [kind |-> "status", JobStatus |-> st, StatusMessage |-> None] :
      st \in {"SUCCEEDED", "IN_PROGRESS", "SUBMITTED", "PARTIAL_SUCCESS"} }
    \cup { [kind |-> "status", JobStatus |-> "FAILED", StatusMessage |-> m] :
             m \in StatusMessages \cup {None} }
    \cup { [kind |-> "ClientError", JobStatus |-> code, StatusMessage |-> None] :
             code \in {"InvalidJobIdException", "ThrottlingException"} }

\* start_document_text_detection
StartJob ==
  /\ job.pc = "idle"
  /\ \E ok \in BOOLEAN :
       job' = IF ok
              THEN [NoJob EXCEPT !.pc = "loop"]
              ELSE [NoJob EXCEPT !.pc = "done",
                                 !.result = AsyncFailure(ClientErrorText(<<"start">>))]
  /\ UNCHANGED <<aside, srcEtag, srcHasMeta, use_dynamodb, docType, s3, item, pc, call, result,
                 pre, prev>>

\* variant: the wait without "elapsed_time += wait_interval"
Sleep_NoAdvance(j, dur) ==
  [j EXCEPT !.wall = j.wall + dur + wait_interval,
            !.polls = j.polls + 1]

\* the sleeping branches: time.sleep(wait_interval); elapsed_time += wait_interval
Sleep(j, dur) ==
  [j EXCEPT !.elapsed_time = j.elapsed_time + wait_interval,
            !.wall = j.wall + dur + wait_interval,
            !.polls = j.polls + 1]

\* one iteration of "while elapsed_time < max_wait_time"
PollStep(j, reply, dur) ==
  LET polled == [j EXCEPT !.wall = j.wall + dur, !.polls = j.polls + 1,
                          !.polled_after_failed = j.failed]
  IN  IF reply.kind = "ClientError"
      THEN IF reply.JobStatus = "InvalidJobIdException"
           THEN Sleep(j, dur)
           ELSE [polled EXCEPT !.pc = "done",
                               !.result = AsyncFailure(ClientErrorText(<<"poll">>))]
      ELSE IF reply.JobStatus = "SUCCEEDED"
      THEN [polled EXCEPT !.pc = "fetch"]
      ELSE IF reply.JobStatus = "FAILED"
      THEN [polled EXCEPT !.pc = "done", !.failed = TRUE,
                          !.status_message = reply.StatusMessage,
                          !.result = AsyncFailure(
                             JobFailedError(StatusMessageOf(reply.StatusMessage)))]
      ELSE IF reply.JobStatus \in {"IN_PROGRESS", "SUBMITTED"}
      THEN Sleep(j, dur)
      ELSE [polled EXCEPT !.pc = "done",
                          !.result = AsyncFailure(UnknownStatusError(reply.JobStatus))]

Poll ==
  /\ job.pc = "loop"
  /\ job.elapsed_time < max_wait_time
  /\ \E reply \in PollReplies, dur \in 0..MaxCallDur : job' = PollStep(job, reply, dur)
  /\ UNCHANGED <<aside, srcEtag, srcHasMeta, use_dynamodb, docType, s3, item, pc, call, result,
                 pre, prev>>

\* the loop ran out: if elapsed_time >= max_wait_time: raise "Textract job timed out"
TimeOut ==
  /\ job.pc = "loop"
  /\ job.elapsed_time >= max_wait_time
  /\ job' = [job EXCEPT !.pc = "done", !.timed_out = TRUE,
                        !.result = AsyncFailure(TimedOutError)]
  /\ UNCHANGED <<aside, srcEtag, srcHasMeta, use_dynamodb, docType, s3, item, pc, call, result,
                 pre, prev>>

\* "Get results": get_document_text_detection once more, then the LINE blocks
FetchResults ==
  /\ job.pc = "fetch"
  /\ \E ok \in BOOLEAN :
       job' = [job EXCEPT !.pc = "done",
                          !.result = IF ok THEN AsyncSuccess(DocBlocks(srcEtag))
                                     ELSE AsyncFailure(ClientErrorText(<<"fetch">>))]
  /\ UNCHANGED <<aside, srcEtag, srcHasMeta, use_dynamodb, docType, s3, item, pc, call, result,
                 pre, prev>>

\* extract_text_from_s3 receives the dict: a failure is returned to the caller as it is
AsyncReturn ==
  /\ job.pc = "done"
  /\ job' = [job EXCEPT !.pc = "returned"]
  /\ result' = IF job.result.success THEN result ELSE FailureResult(job.result.error)
  /\ UNCHANGED <<aside, srcEtag, srcHasMeta, use_dynamodb, docType, s3, item, pc, call, pre, prev>>

\* the next job
NextJob ==
  /\ job.pc = "returned"
  /\ job' = NoJob
  /\ result' = NoResult
  /\ UNCHANGED <<aside, srcEtag, srcHasMeta, use_dynamodb, docType, s3, item, pc, call, pre, prev>>

NextPoll ==
  \/ StartJob
  \/ Poll
  \/ TimeOut
  \/ FetchResults
  \/ AsyncReturn
  \/ NextJob

\* the polling model leaves the pipeline at rest
InitPoll == Init /\ srcHasMeta /\ use_dynamodb /\ docType = "cv"

SpecPoll == InitPoll /\ [][NextPoll]_vars

Next ==
  \/ Reupload
  \/ StartCall
  \/ HeadProbe
  \/ IndexLookup
  \/ CacheRead
  \/ CacheStructured
  \/ CachePutJson
  \/ CacheUpdate
  \/ RunOcr
  \/ Structured
  \/ PutRaw
  \/ PutJson
  \/ UpdateIndex
  \/ Finish

Spec == Init /\ [][Next]_vars

(***************************************************************************)
(* One call on a document whose OCR result is any short sequence of        *)
(* blocks, the sequences without a LINE block (blank pages) included.      *)
(***************************************************************************)
MaxBlocks == 3

\* the blocks a result response is made of
BlockChoices ==
  { Block("PAGE", <<>>, 0), Block("LINE", <<"a", "/">>, 90), Block("WORD", <<"a">>, 99) }

BlockSeqs == UNION { [1..n -> BlockChoices] : n \in 0..MaxBlocks }

\* result = await self._extract_text_async(s3_key), the job's result being doc;
\* call.ocr records whether the job reached SUCCEEDED, the branch taken is the
\* one of result["success"]
RunOcrDoc ==
  /\ pc = "ocr"
  /\ \E r \in {AsyncSuccess(doc)}
               \cup (AsyncOutcomes(srcEtag) \ {AsyncSuccess(DocBlocks(srcEtag))}) :
       IF r.success
       THEN /\ call' = [call EXCEPT !.ocr = "SUCCEEDED", !.text = r.text,
                                    !.confidence = r.confidence, !.method = r.method]
            /\ pc' = "structured"
            /\ UNCHANGED result
       ELSE /\ call' = [call EXCEPT !.ocr = IF r = AsyncSuccess(doc) THEN "SUCCEEDED"
                                            ELSE "failed"]
            /\ pc' = "done"
            /\ result' = FailureResult(r.error)
  /\ UNCHANGED <<aside, srcEtag, srcHasMeta, use_dynamodb, docType, s3, item, pre, prev, job>>

NextDoc ==
  \/ StartCall
  \/ HeadProbe
  \/ IndexLookup
  \/ CacheRead
  \/ RunOcrDoc
  \/ Structured
  \/ PutRaw
  \/ PutJson
  \/ UpdateIndex

InitDoc ==
  /\ srcEtag = <<"etag", 1>>
  /\ srcHasMeta \in BOOLEAN
  /\ use_dynamodb \in BOOLEAN
  /\ docType = "cv"
  /\ s3 = [k \in Keys |-> NoObject]
  /\ item = NoItem
  /\ pc = "idle"
  /\ call = NoCall
  /\ result = NoResult
  /\ pre = [s3 |-> s3, item |-> item]
  /\ prev = NoPrev
  /\ job = NoJob
  /\ doc \in BlockSeqs
  /\ parked = NoParked
  /\ loop = NoLoop
  /\ AuthIdle
  /\ ExtraIdle

SpecDoc == InitDoc /\ [][NextDoc]_vars

(***************************************************************************)
(* Two concurrent calls for the same file on an unchanged source. The      *)
(* calls are served by different workers, so every step of one (each is    *)
(* one S3, DynamoDB, Textract or Bedrock operation) can fall between two   *)
(* steps of the other. pc, call, result, pre are the locals of the call    *)
(* taking steps; parked holds the locals of the other one.                 *)
(***************************************************************************)
\* the other call takes the next steps
Switch ==
  /\ parked' = [pc |-> pc, call |-> call, result |-> result, pre |-> pre]
  /\ pc' = parked.pc
  /\ call' = parked.call
  /\ result' = parked.result
  /\ pre' = parked.pre
  /\ UNCHANGED <<doc, loop, authVars, extra, srcEtag, srcHasMeta, use_dynamodb, docType, s3, item,
                 prev, job>>

NextRace ==
  \/ Switch
  \/ StartCall
  \/ HeadProbe
  \/ IndexLookup
  \/ CacheRead
  \/ CacheStructured
  \/ CachePutJson
  \/ CacheUpdate
  \/ RunOcr
  \/ Structured
  \/ PutRaw
  \/ PutJson
  \/ UpdateIndex

InitRace ==
  /\ srcEtag = <<"etag", 1>>
  /\ srcHasMeta \in BOOLEAN
  /\ use_dynamodb \in BOOLEAN
  /\ docType = "cv"
  /\ s3 = [k \in Keys |-> NoObject]
  /\ item = NoItem
  /\ pc = "idle"
  /\ call = NoCall
  /\ result = NoResult
  /\ pre = [s3 |-> s3, item |-> item]
  /\ prev = NoPrev
  /\ job = NoJob
  /\ doc = <<>>
  /\ parked = NoParked
  /\ loop = NoLoop
  /\ AuthIdle
  /\ ExtraIdle

SpecRace == InitRace /\ [][NextRace]_vars

(***************************************************************************)
(* The event loop. One thread runs the tasks; a task keeps the thread      *)
(* until it awaits something that suspends it or returns. The extraction   *)
(* task awaits only coroutines of TextractService, none of which suspends: *)
(* the S3, DynamoDB, Textract and Bedrock calls are synchronous boto3      *)
(* calls and the wait between two polls is time.sleep.                     *)
(***************************************************************************)
MaxOtherSteps == 2

\* the loop runs the extraction task up to start_document_text_detection
ExtractStart ==
  /\ loop.thread = "idle" /\ loop.extract = "ready"
  /\ \E ok \in BOOLEAN :
       loop' = IF ok THEN [loop EXCEPT !.thread = "extract", !.extract = "poll"]
               ELSE [loop EXCEPT !.extract = "returned"]
  /\ UNCHANGED <<doc, parked, authVars, extra, pipeline>>

\* one get_document_text_detection of the while loop, or the loop's exit
LoopPoll ==
  /\ loop.thread = "extract" /\ loop.extract = "poll"
  /\ IF loop.elapsed_time < max_wait_time
     THEN \E reply \in PollReplies :
            loop' = IF \/ reply.kind = "status" /\ reply.JobStatus \in {"IN_PROGRESS", "SUBMITTED"}
                       \/ reply.kind = "ClientError"
                          /\ reply.JobStatus = "InvalidJobIdException"
                    THEN [loop EXCEPT !.extract = "sleep"]
                    ELSE [loop EXCEPT !.extract = "after_loop"]
     ELSE loop' = [loop EXCEPT !.extract = "after_loop"]
  /\ UNCHANGED <<doc, parked, authVars, extra, pipeline>>

\* time.sleep(wait_interval) returns; elapsed_time += wait_interval
LoopWake ==
  /\ loop.thread = "extract" /\ loop.extract = "sleep"
  /\ loop' = [loop EXCEPT !.extract = "poll",
                          !.elapsed_time = loop.elapsed_time + wait_interval]
  /\ UNCHANGED <<doc, parked, authVars, extra, pipeline>>

\* the rest of the call, to its return: the thread is free again
ExtractReturn ==
  /\ loop.thread = "extract" /\ loop.extract = "after_loop"
  /\ loop' = [loop EXCEPT !.thread = "idle", !.extract = "returned"]
  /\ UNCHANGED <<doc, parked, authVars, extra, pipeline>>

\* the loop runs a step of another task (another request), up to its next await
OtherStep ==
  /\ loop.thread = "idle" /\ loop.other < MaxOtherSteps
  /\ loop' = [loop EXCEPT !.other = loop.other + 1]
  /\ UNCHANGED <<doc, parked, authVars, extra, pipeline>>

NextLoop ==
  \/ ExtractStart
  \/ LoopPoll
  \/ LoopWake
  \/ ExtractReturn
  \/ OtherStep

InitLoop ==
  /\ srcEtag = <<"etag", 1>>
  /\ srcHasMeta = TRUE
  /\ use_dynamodb = TRUE
  /\ docType = "cv"
  /\ s3 = [k \in Keys |-> NoObject]
  /\ item = NoItem
  /\ pc = "idle"
  /\ call = NoCall
  /\ result = NoResult
  /\ pre = [s3 |-> s3, item |-> item]
  /\ prev = NoPrev
  /\ job = NoJob
  /\ doc = <<>>
  /\ parked = NoParked
  /\ loop = NoLoop
  /\ AuthIdle
  /\ ExtraIdle

SpecLoop == InitLoop /\ [][NextLoop]_vars

(***************************************************************************)
(* Authentication: JWTs with a jti, the Redis blacklist, the user_sessions *)
(* table. A token is named by its jti (uuid4, never repeated); 0 is a      *)
(* string that does not decode. One user.                                  *)
(***************************************************************************)
MaxIssues == 2

Tokens == 0..Len(issued)

\* _is_blacklisted(jti)
_is_blacklisted(jti) == IF ~redis.up THEN FALSE ELSE jti \in redis.blacklist

\* verify_token(token, token_type): "ok" or the detail of the 401 raised
verify_token(token, token_type) ==
  IF token = 0 THEN "Could not validate credentials"
  ELSE IF issued[token] # token_type THEN "Invalid token type"
  ELSE IF _is_blacklisted(token) THEN "Token has been revoked"
  ELSE "ok"

\* the UserSession created for a token pair
UserSession(access_token, refresh_token) ==
  [access_token |-> access_token, refresh_token |-> refresh_token, is_active |-> TRUE]

\* indexes of the sessions get_user_sessions returns: the active ones, none on error
get_user_sessions(ok) ==
  IF ok THEN { i \in 1..Len(sessions) : sessions[i].is_active } ELSE {}

\* deactivate_session on each session of the set D
Deactivated(D) ==
  [i \in 1..Len(sessions) |->
     IF i \in D THEN [sessions[i] EXCEPT !.is_active = FALSE] ELSE sessions[i]]

\* verify_otp_code: the account becomes active
VerifyOtp ==
  /\ user_status = "pending_verification"
  /\ user_status' = "active"
  /\ last' = [NoLast EXCEPT !.op = "verify_otp", !.ok = TRUE]
  /\ UNCHANGED <<redis, issued, sessions, refreshed, logged_out, doc, parked, loop, extra, pipeline>>

\* POST /auth/login with the right password: authenticate_user, create_user_session;
\* when create_session fails the response is a 500 and the pair is returned to nobody
Login ==
  /\ Len(issued) < 2 * MaxIssues
  /\ IF user_status # "active"
     THEN /\ last' = [NoLast EXCEPT !.op = "login", !.detail = "not active"]
          /\ UNCHANGED <<issued, sessions>>
     ELSE \E created \in BOOLEAN :
            LET access_token == Len(issued) + 1
                refresh_token == Len(issued) + 2
            IN  /\ issued' = IF created THEN issued \o <<"access", "refresh">> ELSE issued
                /\ sessions' = IF created
                               THEN Append(sessions, UserSession(access_token, refresh_token))
                               ELSE sessions
                /\ last' = IF created
                           THEN [NoLast EXCEPT !.op = "login", !.ok = TRUE,
                                               !.access_token = access_token,
                                               !.refresh_token = refresh_token,
                                               !.before = sessions]
                           ELSE [NoLast EXCEPT !.op = "login",
                                               !.detail = "Failed to create user session"]
  /\ UNCHANGED <<user_status, redis, refreshed, logged_out, doc, parked, loop, extra, pipeline>>

\* POST /auth/refresh: refresh_access_token(refresh_token)
Refresh ==
  /\ Len(issued) < 2 * MaxIssues
  /\ \E presented \in Tokens, found \in BOOLEAN :
       LET v == verify_token(presented, "refresh")
       IN  IF v # "ok" \/ ~found \/ user_status # "active"
           THEN /\ last' = [NoLast EXCEPT !.op = "refresh", !.presented = presented,
                                          !.detail = IF v # "ok" THEN v
                                                     ELSE IF ~found THEN "User not found"
                                                     ELSE "User account is not active"]
                /\ UNCHANGED <<issued, sessions, refreshed>>
           ELSE \E queried \in BOOLEAN, updated \in BOOLEAN, created \in BOOLEAN :
                  LET access_token == Len(issued) + 1
                      new_refresh_token == Len(issued) + 2
                      held == { i \in get_user_sessions(queried) :
                                  sessions[i].refresh_token = presented }
                      kept == Deactivated(IF updated THEN held ELSE {})
                  IN  /\ issued' = issued \o <<"access", "refresh">>
                      /\ sessions' = IF created
                                     THEN Append(kept, UserSession(access_token,
                                                                   new_refresh_token))
                                     ELSE kept
                      /\ refreshed' = refreshed \cup {presented}
                      /\ last' = [NoLast EXCEPT !.op = "refresh", !.ok = TRUE,
                                                !.presented = presented,
                                                !.access_token = access_token,
                                                !.refresh_token = new_refresh_token,
                                                !.before = sessions]
  /\ UNCHANGED <<user_status, redis, logged_out, doc, parked, loop, extra, pipeline>>

\* get_current_user of api/v1/auth.py: "ok" or the detail of the 401
get_current_user(token, found) ==
  LET v == verify_token(token, "access")
  IN  IF v # "ok" THEN v ELSE IF ~found THEN "User not found" ELSE "ok"

\* POST /auth/logout: get_current_user, then logout_user(user_id) without session_id
Logout ==
  /\ \E presented \in Tokens, found \in BOOLEAN :
       LET u == get_current_user(presented, found)
       IN  IF u # "ok"
           THEN /\ last' = [NoLast EXCEPT !.op = "logout", !.presented = presented,
                                          !.detail = u]
                /\ UNCHANGED <<sessions, logged_out>>
           ELSE \E queried \in BOOLEAN :
                \E D \in SUBSET get_user_sessions(queried) :
                  /\ sessions' = Deactivated(D)
                  /\ logged_out' = logged_out \cup {presented}
                  /\ last' = [NoLast EXCEPT !.op = "logout", !.ok = TRUE,
                                            !.presented = presented, !.before = sessions]
  /\ UNCHANGED <<user_status, redis, issued, refreshed, doc, parked, loop, extra, pipeline>>

\* GET /auth/me: an authenticated endpoint
Me ==
  /\ \E presented \in Tokens, found \in BOOLEAN :
       LET u == get_current_user(presented, found)
       IN  last' = [NoLast EXCEPT !.op = "me", !.ok = (u = "ok"), !.presented = presented,
                                  !.detail = IF u = "ok" THEN "" ELSE u]
  /\ UNCHANGED <<user_status, redis, issued, sessions, refreshed, logged_out,
                 doc, parked, loop, extra, pipeline>>

NextAuth ==
  \/ VerifyOtp
  \/ Login
  \/ Refresh
  \/ Logout
  \/ Me

InitAuth ==
  /\ srcEtag = <<"etag", 1>>
  /\ srcHasMeta = TRUE
  /\ use_dynamodb = TRUE
  /\ docType = "cv"
  /\ s3 = [k \in Keys |-> NoObject]
  /\ item = NoItem
  /\ pc = "idle"
  /\ call = NoCall
  /\ result = NoResult
  /\ pre = [s3 |-> s3, item |-> item]
  /\ prev = NoPrev
  /\ job = NoJob
  /\ doc = <<>>
  /\ parked = NoParked
  /\ loop = NoLoop
  /\ user_status = "pending_verification"
  /\ redis \in { [up |-> u, blacklist |-> {}] : u \in BOOLEAN }
  /\ issued = <<>>
  /\ sessions = <<>>
  /\ last = NoLast
  /\ refreshed = {}
  /\ logged_out = {}
  /\ ExtraIdle

SpecAuth == InitAuth /\ [][NextAuth]_vars

(***************************************************************************)
(* The models below study one function or one flow each; the pipeline,     *)
(* the event loop and the token model stay at rest.                        *)
(***************************************************************************)
SideIdle ==
  /\ srcEtag = <<"etag", 1>>
  /\ srcHasMeta = TRUE
  /\ use_dynamodb = TRUE
  /\ docType = "cv"
  /\ s3 = [k \in Keys |-> NoObject]
  /\ item = NoItem
  /\ pc = "idle"
  /\ call = NoCall
  /\ result = NoResult
  /\ pre = [s3 |-> s3, item |-> item]
  /\ prev = NoPrev
  /\ job = NoJob
  /\ doc = <<>>
  /\ parked = NoParked
  /\ loop = NoLoop
  /\ AuthIdle

side == <<pipeline, doc, parked, loop, authVars>>

(***************************************************************************)
(* _clean_text on every short text, and the round trip of a cache hit:     *)
(* the cleaned text is stored as UTF-8, read back, decoded and cleaned     *)
(* again.                                                                  *)
(***************************************************************************)
MaxLen == 5

TextChars == {"a", " ", "\n", "|", "0", "/"}

Texts == UNION { [1..n -> TextChars] : n \in 0..MaxLen }

\* processed_text of the call that runs OCR: _clean_text(result["text"])
CleanOnce ==
  /\ clean.stage = "raw"
  /\ clean' = [clean EXCEPT !.stage = "stored", !.once = _clean_text(clean.text)]
  /\ UNCHANGED <<side, pw, rl, rp, otp>>

\* the cache hit: put_object(encode), get_object, decode, _clean_text
CleanAgain ==
  /\ clean.stage = "stored"
  /\ clean' = [clean EXCEPT !.stage = "reused",
                            !.twice = _clean_text(Utf8DecodeIgnore(Utf8Encode(clean.once)))]
  /\ UNCHANGED <<side, pw, rl, rp, otp>>

NextClean ==
  \/ CleanOnce
  \/ CleanAgain

InitClean ==
  /\ SideIdle
  /\ clean \in { [NoClean EXCEPT !.stage = "raw", !.text = t] : t \in Texts }
  /\ pw = Unused /\ rl = Unused /\ rp = Unused /\ otp = Unused

SpecClean == InitClean /\ [][NextClean]_vars

(***************************************************************************)
(* validate_password_strength of app.utils.validators on a set of          *)
(* passwords: a password is a sequence of characters.                      *)
(***************************************************************************)
MaxBase == 3
MaxPad == 8

UpperLetters == <<"A", "B", "C", "D", "E", "F", "G", "H", "I", "J", "K", "L", "M", "N", "O", "P", "Q", "R", "S", "T", "U", "V", "W", "X", "Y", "Z">>
LowerLetters == <<"a", "b", "c", "d", "e", "f", "g", "h", "i", "j", "k", "l", "m", "n", "o", "p", "q", "r", "s", "t", "u", "v", "w", "x", "y", "z">>

\* [A-Z], [a-z], \d on the characters of the model, and the special class
IsUpper(c) == \E i \in 1..Len(UpperLetters) : UpperLetters[i] = c
IsLower(c) == \E i \in 1..Len(LowerLetters) : LowerLetters[i] = c
IsDigit(c) == c \in {"0", "1", "2", "3", "4", "5", "6", "7", "8", "9"}
IsSpecial(c) ==
  c \in {"!", "@", "#", "$", "%", "^", "&", "*", "(", ")", ",", ".", "?",
         "\"", ":", "{", "}", "|", "<", ">"}

\* password.lower()
LowerChar(c) ==
  IF IsUpper(c)
  THEN LowerLetters[CHOOSE i \in 1..Len(UpperLetters) : UpperLetters[i] = c]
  ELSE c
lower(password) == [i \in 1..Len(password) |-> LowerChar(password[i])]

common_passwords ==
  { <<"p", "a", "s", "s", "w", "o", "r", "d">>,
    <<"1", "2", "3", "4", "5", "6">>,
    <<"1", "2", "3", "4", "5", "6", "7", "8", "9">>,
    <<"q", "w", "e", "r", "t", "y">>,
    <<"a", "b", "c", "1", "2", "3">>,
    <<"p", "a", "s", "s", "w", "o", "r", "d", "1", "2", "3">>,
    <<"a", "d", "m", "i", "n">>,
    <<"l", "e", "t", "m", "e", "i", "n">>,
    <<"w", "e", "l", "c", "o", "m", "e">>,
    <<"m", "o", "n", "k", "e", "y">> }

\* strength_score before the common password check: one point for the length
\* and one for each re.search that finds a character
Criteria(password) ==
    (IF Len(password) < 8 THEN 0 ELSE 1)
  + (IF \E i \in 1..Len(password) : IsUpper(password[i]) THEN 1 ELSE 0)
  + (IF \E i \in 1..Len(password) : IsLower(password[i]) THEN 1 ELSE 0)
  + (IF \E i \in 1..Len(password) : IsDigit(password[i]) THEN 1 ELSE 0)
  + (IF \E i \in 1..Len(password) : IsSpecial(password[i]) THEN 1 ELSE 0)

\* "Determine strength level"
StrengthLevel(strength_score) ==
  IF strength_score <= 2 THEN "weak"
  ELSE IF strength_score <= 3 THEN "medium"
  ELSE IF strength_score <= 4 THEN "strong"
  ELSE "very_strong"

validate_password_strength(password) ==
  IF password = <<>>
  THEN [valid |-> FALSE, error |-> "Password is required",
        strength_score |-> 0, strength_level |-> "none"]
  ELSE LET common == lower(password) \in common_passwords
           strength_score == IF common THEN 0 ELSE Criteria(password)
       IN  [valid |-> Criteria(password) = 5 /\ ~common,
            error |-> "",
            strength_score |-> strength_score,
            strength_level |-> StrengthLevel(strength_score)]

\* the passwords of test_score_to_level_mapping
TestPasswords ==
  { <<"_">>,
    <<"a", "b", "c", "d", "e", "f", "g">>,
    <<"a", "b", "c", "d", "e", "f", "g", "h">>,
    <<"A", "b", "c", "d", "e", "f", "g", "h">>,
    <<"A", "b", "c", "d", "e", "f", "g", "1">>,
    <<"A", "b", "c", "d", "e", "f", "1", "!">> }

\* a common password as it is and with its first character in upper case
Capitalized(password) ==
  [i \in 1..Len(password) |->
     IF i = 1 /\ IsLower(password[1])
     THEN UpperLetters[CHOOSE k \in 1..Len(LowerLetters) : LowerLetters[k] = password[1]]
     ELSE password[i]]

Pad(k) == [i \in 1..k |-> "_"]

Passwords ==
  { b \o Pad(k) : b \in UNION { [1..n -> {"A", "a", "1", "!"}] : n \in 0..MaxBase },
                  k \in 0..MaxPad }
    \cup TestPasswords
    \cup common_passwords
    \cup { Capitalized(c) : c \in common_passwords }

NoPw ==
  [stage |-> "input", password |-> <<>>, criteria |-> 0,
   response |-> validate_password_strength(<<>>)]

Validate ==
  /\ pw.stage = "input"
  /\ pw' = [pw EXCEPT !.stage = "returned",
                      !.criteria = Criteria(pw.password),
                      !.response = validate_password_strength(pw.password)]
  /\ UNCHANGED <<side, clean, rl, rp, otp>>

NextPw == Validate

InitPw ==
  /\ SideIdle
  /\ pw \in { [NoPw EXCEPT !.password = p] : p \in Passwords }
  /\ clean = NoClean /\ rl = Unused /\ rp = Unused /\ otp = Unused

SpecPw == InitPw /\ [][NextPw]_vars

(***************************************************************************)
(* RateLimitMiddleware for the requests of one client IP.  dispatch checks *)
(* the counter, awaits call_next, and counts the request afterwards; the   *)
(* requests that wait in call_next are in flight together.                 *)
(***************************************************************************)
MaxInflight == 2
MaxTicks == 2

\* settings.rate_limit_requests, settings.rate_limit_window
requests_per_minute == 100
window_seconds == 60

\* the step of the clock of the model
TickSeconds == window_seconds \div 2

\* rate_limit_store[client_ip] of a client not seen yet, no request made
NoRl ==
  [now |-> 0, count |-> 0, reset_time |-> 0, inflight |-> <<>>,
   passed |-> 0, last |-> "none"]

\* time.time() advances
Tick ==
  /\ rl.now < MaxTicks * TickSeconds
  /\ rl' = [rl EXCEPT !.now = rl.now + TickSeconds]
  /\ UNCHANGED <<side, clean, pw, rp, otp>>

\* _is_rate_limited: the store after the check, and the answer
CheckedStore(store, current_time) ==
  IF current_time >= store.reset_time
  THEN [store EXCEPT !.count = 0, !.reset_time = current_time + window_seconds]
  ELSE store
_is_rate_limited(store, current_time) ==
  CheckedStore(store, current_time).count >= requests_per_minute

\* dispatch up to "await call_next(request)", or to the 429 response; passed
\* counts the requests passed on since the window of the store began
Dispatch ==
  /\ Len(rl.inflight) < MaxInflight
  /\ rl.passed <= requests_per_minute
  /\ LET current_time == rl.now
         store == CheckedStore(rl, current_time)
         before == IF current_time >= rl.reset_time THEN 0 ELSE rl.passed
     IN  rl' = IF _is_rate_limited(rl, current_time)
               THEN [store EXCEPT !.passed = before, !.last = "429"]
               ELSE [store EXCEPT !.inflight = Append(rl.inflight, current_time),
                                  !.passed = before + 1,
                                  !.last = "passed"]
  /\ UNCHANGED <<side, clean, pw, rp, otp>>

\* _update_rate_limit
_update_rate_limit(store, current_time) ==
  IF current_time >= store.reset_time
  THEN [store EXCEPT !.count = 1, !.reset_time = current_time + window_seconds]
  ELSE [store EXCEPT !.count = store.count + 1]

Without(s, i) == [k \in 1..(Len(s) - 1) |-> IF k < i THEN s[k] ELSE s[k + 1]]

\* call_next returns the response of a request in flight: the request is counted
Respond ==
  \E i \in 1..Len(rl.inflight) :
    /\ rl' = [_update_rate_limit(rl, rl.inflight[i])
                EXCEPT !.inflight = Without(rl.inflight, i), !.last = "response"]
    /\ UNCHANGED <<side, clean, pw, rp, otp>>

\* call_next raises: dispatch ends before _update_rate_limit
Raise ==
  \E i \in 1..Len(rl.inflight) :
    /\ rl' = [rl EXCEPT !.inflight = Without(rl.inflight, i), !.last = "raised"]
    /\ UNCHANGED <<side, clean, pw, rp, otp>>

NextRl ==
  \/ Tick
  \/ Dispatch
  \/ Respond
  \/ Raise

InitRl ==
  /\ SideIdle
  /\ rl = NoRl
  /\ clean = NoClean /\ pw = Unused /\ rp = Unused /\ otp = Unused

SpecRl == InitRl /\ [][NextRl]_vars

(***************************************************************************)
(* Password reset.  AuthService.generate_password_reset and                *)
(* AuthService.reset_password keep the token on the users item; the        *)
(* endpoints /auth/forgot-password and /auth/reset-password go through     *)
(* EmailService and its token tables.  One user, clock in minutes.         *)
(***************************************************************************)
MaxTokens == 2
MaxClock == 3
MaxAccepts == 2

\* the step of the clock of the model, and timedelta(hours=1) in minutes
ClockMinutes == 30
OneHour == 60

\* settings.password_min_length
password_min_length == 8

\* the characters of the special class of app.core.security
SecuritySpecial ==
  {"!", "@", "#", "$", "%", "^", "&", "*", "(", ")", "_", "+", "-", "=", "[",
   "]", "{", "}", "|", ";", ":", ",", ".", "<", ">", "?"}

\* validate_password_strength of app.core.security: the first component
PolicyValid(password) ==
  /\ ~(Len(password) < password_min_length)
  /\ \E i \in 1..Len(password) : IsUpper(password[i])
  /\ \E i \in 1..Len(password) : IsLower(password[i])
  /\ \E i \in 1..Len(password) : IsDigit(password[i])
  /\ \E i \in 1..Len(password) : password[i] \in SecuritySpecial

\* the new passwords a client sends
NewPasswords ==
  { <<"N", "e", "w", "P", "a", "s", "s", "1", "2", "3", "!">>,
    <<"s", "h", "o", "r", "t">>,
    <<"l", "o", "n", "g", "b", "u", "t", "w", "e", "a", "k">> }

\* "reset_token": None and "reset_token_expiry": None; tokens are 1, 2, ...
NoToken == 0
NoExpiry == -1

\* the users item of the user, before any reset
NoUser ==
  [password_hash |-> <<"hash">>, reset_token |-> NoToken,
   reset_token_expiry |-> NoExpiry]

NoResetRequest ==
  [op |-> "none", token |-> 0, new_password |-> <<>>, ok |-> FALSE,
   detail |-> "", changed |-> FALSE, first |-> FALSE, in_time |-> FALSE]

NoRp ==
  [now |-> 0, user |-> NoUser,
   password_reset_tokens |-> {}, email_verification_tokens |-> {},
   minted |-> 0, born |-> <<>>, returned |-> {}, mailed |-> {},
   accepted |-> <<>>, tried |-> <<>>, presented |-> {},
   last |-> NoResetRequest]

\* get_password_hash(new_password)
get_password_hash(password) == <<"hash">> \o password

\* datetime.utcnow() and datetime.now() advance
TickReset ==
  /\ rp.now < MaxClock * ClockMinutes
  /\ rp' = [rp EXCEPT !.now = rp.now + ClockMinutes]
  /\ UNCHANGED <<side, clean, pw, rl, otp>>

\* a fresh token: generate_password_reset_token(), secrets.token_urlsafe(32)
Mint(r) ==
  [r EXCEPT !.minted = r.minted + 1,
            !.born = Append(r.born, r.now),
            !.accepted = Append(r.accepted, 0),
            !.tried = Append(r.tried, 0)]

\* AuthService.generate_password_reset(email): known is whether the email is
\* the user's, stored whether update_item succeeded (update_user gives False
\* on a ClientError and the result is not looked at)
GeneratePasswordReset ==
  /\ rp.minted < MaxTokens
  /\ \E known \in BOOLEAN, stored \in BOOLEAN :
       LET token == rp.minted + 1
           r == Mint(rp)
       IN  rp' =
             IF ~known
             THEN [rp EXCEPT !.last = [NoResetRequest EXCEPT
                                         !.op = "generate_password_reset",
                                         !.detail = "User not found"]]
             ELSE [r EXCEPT
                     !.user = IF stored
                              THEN [rp.user EXCEPT !.reset_token = token,
                                                   !.reset_token_expiry = rp.now + OneHour]
                              ELSE rp.user,
                     !.returned = rp.returned \cup {token},
                     !.last = [NoResetRequest EXCEPT
                                 !.op = "generate_password_reset",
                                 !.token = token, !.ok = TRUE]]
  /\ UNCHANGED <<side, clean, pw, rl, otp>>

\* AuthService.reset_password(token, new_password): scanned is whether the
\* scan gave the items, stored whether update_item succeeded
ResetPassword ==
  \E token \in 1..rp.minted, new_password \in NewPasswords,
     scanned \in BOOLEAN, stored \in BOOLEAN :
    LET match == scanned /\ rp.user.reset_token = token
        expiry == rp.user.reset_token_expiry
        in_time == rp.now < rp.born[token] + OneHour
        counts == PolicyValid(new_password) /\ in_time
        req == [NoResetRequest EXCEPT
                  !.op = "reset_password", !.token = token,
                  !.new_password = new_password,
                  !.in_time = in_time,
                  !.first = counts /\ rp.tried[token] = 0]
        r == [rp EXCEPT !.tried[token] = IF counts THEN 1 ELSE @]
    IN  /\ rp.accepted[token] < MaxAccepts
        /\ rp' =
             IF ~match
             THEN [r EXCEPT !.last = [req EXCEPT
                                        !.detail = "Invalid or expired reset token"]]
             ELSE IF expiry = NoExpiry \/ expiry < rp.now
             THEN [r EXCEPT !.last = [req EXCEPT !.detail = "Reset token expired"]]
             ELSE IF ~PolicyValid(new_password)
             THEN [r EXCEPT !.last = [req EXCEPT !.detail = "policy"]]
             ELSE [r EXCEPT
                     !.user = IF stored
                              THEN [password_hash |-> get_password_hash(new_password),
                                    reset_token |-> NoToken,
                                    reset_token_expiry |-> NoExpiry]
                              ELSE rp.user,
                     !.accepted[token] = @ + 1,
                     !.last = [req EXCEPT !.ok = TRUE,
                                          !.detail = "Password has been reset",
                                          !.changed = stored]]
        /\ UNCHANGED <<side, clean, pw, rl, otp>>

\* the row _generate_password_reset_token puts
TokenRow(token, now, type) ==
  [token |-> token, token_type |-> type, created_at |-> now,
   expires_at |-> now + OneHour, used |-> FALSE]

\* POST /auth/forgot-password: known is whether the email is the user's, put
\* whether put_item went through, sent whether SES took the mail
ForgotPassword ==
  /\ rp.minted < MaxTokens
  /\ \E known \in BOOLEAN, put \in BOOLEAN, sent \in BOOLEAN :
       LET token == rp.minted + 1
           r == Mint(rp)
           req == [NoResetRequest EXCEPT !.op = "forgot_password"]
       IN  rp' =
             IF ~known
             THEN [rp EXCEPT !.last = [req EXCEPT !.ok = TRUE]]
             ELSE IF ~put
             THEN [r EXCEPT !.last = [req EXCEPT !.detail = "500"]]
             ELSE [r EXCEPT
                     !.password_reset_tokens =
                        @ \cup {TokenRow(token, rp.now, "password_reset")},
                     !.mailed = IF sent THEN rp.mailed \cup {token} ELSE rp.mailed,
                     !.last = IF sent
                              THEN [req EXCEPT !.ok = TRUE, !.token = token]
                              ELSE [req EXCEPT !.detail = "500"]]
  /\ UNCHANGED <<side, clean, pw, rl, otp>>

\* EmailService.verify_email_token(token): the table after the call and the result
verify_email_token(table, token, now) ==
  LET rows == { row \in table : row.token = token }
  IN  IF rows = {}
      THEN [table |-> table, success |-> FALSE, error |-> "Invalid or expired token"]
      ELSE LET found == CHOOSE row \in rows : TRUE
           IN  IF now > found.expires_at
               THEN [table |-> table \ {found}, success |-> FALSE,
                     error |-> "Token has expired"]
               ELSE IF found.used
               THEN [table |-> table, success |-> FALSE,
                     error |-> "Token has already been used"]
               ELSE [table |-> (table \ {found}) \cup {[found EXCEPT !.used = TRUE]},
                     success |-> TRUE, error |-> ""]

\* POST /auth/reset-password: stored is whether update_item succeeded
ResetPasswordApi ==
  \E token \in 1..rp.minted, new_password \in NewPasswords, stored \in BOOLEAN :
    LET verified == verify_email_token(rp.email_verification_tokens, token, rp.now)
        req == [NoResetRequest EXCEPT
                  !.op = "reset-password", !.token = token,
                  !.new_password = new_password,
                  !.in_time = rp.now < rp.born[token] + OneHour,
                  !.first = token \notin rp.presented]
        r == [rp EXCEPT !.email_verification_tokens = verified.table,
                        !.presented = @ \cup {token}]
    IN  /\ rp' =
             IF ~verified.success
             THEN [r EXCEPT !.last = [req EXCEPT !.detail = verified.error]]
             ELSE IF Len(new_password) < password_min_length
             THEN [r EXCEPT !.last = [req EXCEPT !.detail = "400"]]
             ELSE IF ~(PolicyValid(new_password) /\ stored)
             THEN [r EXCEPT !.last = [req EXCEPT !.detail = "500"]]
             ELSE [r EXCEPT
                     !.user = [rp.user EXCEPT
                                 !.password_hash = get_password_hash(new_password)],
                     !.last = [req EXCEPT !.ok = TRUE, !.changed = TRUE]]
        /\ UNCHANGED <<side, clean, pw, rl, otp>>

\* the two functions of AuthService
NextReset ==
  \/ TickReset
  \/ GeneratePasswordReset
  \/ ResetPassword

\* the two endpoints
NextForgot ==
  \/ TickReset
  \/ ForgotPassword
  \/ ResetPasswordApi

InitReset ==
  /\ SideIdle
  /\ rp = NoRp
  /\ clean = NoClean /\ pw = Unused /\ rl = Unused /\ otp = Unused

SpecReset == InitReset /\ [][NextReset]_vars

SpecForgot == InitReset /\ [][NextForgot]_vars

(***************************************************************************)
(* OTP verification of one user who is not verified yet.  The calls of     *)
(* verify_otp_code are served by different workers: a call reads the       *)
(* records with a scan and writes the one it chose back with save(), and   *)
(* the steps of another call can fall between the two.                     *)
(***************************************************************************)
MaxOtps == 2
MaxOtpClock == 2
MaxCalls == 2
MaxEvaluated == 4

\* the step of the clock of the model, and create_otp_expiry: 15 minutes
OtpClockMinutes == 10
OtpLifetime == 15

\* the attempts a record allows
MaxAttempts == 3

\* the codes a client submits: the code of a record, or a code of no record
OtpCodes == 0..MaxOtps

NoVerify == [op |-> "none", ok |-> FALSE, detail |-> "", record |-> 0]

\* the record send_otp_verification_email saves: the i-th record has code i;
\* wrong counts the wrong codes compared with it, wrong_at_use is the number
\* of wrong codes submitted before the call that activated the account with
\* it began (-1: no call did)
OtpRecord(i, now) ==
  [otp_code |-> i, expires_at |-> now + OtpLifetime, created_at |-> now,
   attempts |-> 0, is_used |-> "false", wrong |-> 0, wrong_at_use |-> -1]

\* after register_user: one record, the user pending, no call in progress
NoOtp ==
  [now |-> 0, records |-> <<OtpRecord(1, 0)>>, email_verified |-> FALSE,
   calls |-> <<>>, last |-> NoVerify]

\* datetime.utcnow() advances
TickOtp ==
  /\ otp.now < MaxOtpClock * OtpClockMinutes
  /\ otp' = [otp EXCEPT !.now = otp.now + OtpClockMinutes]
  /\ UNCHANGED <<side, clean, pw, rl, rp>>

\* resend_otp_code: saved is whether otp_record.save() succeeded
SendOtp ==
  /\ Len(otp.records) < MaxOtps
  /\ \E saved \in BOOLEAN :
       otp' =
         IF otp.email_verified
         THEN [otp EXCEPT !.last = [NoVerify EXCEPT !.op = "resend_otp_code",
                                       !.detail = "Email already verified"]]
         ELSE IF ~saved
         THEN [otp EXCEPT !.last = [NoVerify EXCEPT !.op = "resend_otp_code",
                                       !.detail = "Failed to send OTP"]]
         ELSE [otp EXCEPT
                 !.records = Append(@, OtpRecord(Len(otp.records) + 1, otp.now)),
                 !.last = [NoVerify EXCEPT !.op = "resend_otp_code", !.ok = TRUE]]
  /\ UNCHANGED <<side, clean, pw, rl, rp>>

\* the records that can come first after the scan, the filter on is_used and
\* the sort by created_at, newest first
Latest(records) ==
  { i \in 1..Len(records) :
      /\ records[i].is_used = "false"
      /\ \A k \in 1..Len(records) :
           records[k].is_used = "false" => records[k].created_at <= records[i].created_at }

\* verify_otp_code(email, otp_code) up to its first write: the user, the
\* scan, the expiry, the attempts and the comparison of the code.  The call
\* ends here, or goes on to save latest_otp as it read it
VerifyOtpCode ==
  /\ Len(otp.calls) < MaxCalls
  /\ \A i \in 1..Len(otp.records) : otp.records[i].wrong < MaxEvaluated
  /\ \E otp_code \in OtpCodes :
       LET req == [NoVerify EXCEPT !.op = "verify_otp_code"]
       IN  IF otp.email_verified
           THEN otp' = [otp EXCEPT !.last = [req EXCEPT !.detail = "Email already verified"]]
           ELSE IF Latest(otp.records) = {}
           THEN otp' = [otp EXCEPT !.last = [req EXCEPT !.detail = "No valid OTP found"]]
           ELSE \E i \in Latest(otp.records) :
                  LET latest_otp == otp.records[i]
                      on == [req EXCEPT !.record = i]
                  IN  otp' =
                        IF otp.now > latest_otp.expires_at
                        THEN [otp EXCEPT !.last = [on EXCEPT !.detail = "OTP has expired"]]
                        ELSE IF latest_otp.attempts >= MaxAttempts
                        THEN [otp EXCEPT !.last = [on EXCEPT !.detail = "Too many failed attempts"]]
                        ELSE [otp EXCEPT
                                !.records[i].wrong =
                                   IF latest_otp.otp_code # otp_code THEN @ + 1 ELSE @,
                                !.calls = Append(@, [record |-> i,
                                                     latest_otp |-> latest_otp,
                                                     right |-> latest_otp.otp_code = otp_code]),
                                !.last = [on EXCEPT !.detail = "comparing"]]
  /\ UNCHANGED <<side, clean, pw, rl, rp>>

\* latest_otp.save() writes the whole record as the call holds it; the two
\* counters of the model stay as they are
Saved(current, held) ==
  [held EXCEPT !.wrong = current.wrong, !.wrong_at_use = current.wrong_at_use]

\* the rest of a call: latest_otp.save() with one more attempt, or with
\* is_used and then update_user.  saved and updated are whether the writes
\* succeeded (a save that raises ends the call with "Error verifying OTP")
VerifyOtpWrite ==
  \E c \in 1..Len(otp.calls), saved \in BOOLEAN, updated \in BOOLEAN :
    LET this == otp.calls[c]
        i == this.record
        on == [NoVerify EXCEPT !.op = "verify_otp_code", !.record = i]
        rest == Without(otp.calls, c)
    IN  /\ otp' =
             IF ~saved
             THEN [otp EXCEPT !.calls = rest,
                              !.last = [on EXCEPT !.detail = "Error verifying OTP"]]
             ELSE IF ~this.right
             THEN [otp EXCEPT
                     !.records[i] = Saved(@, [this.latest_otp EXCEPT
                                                !.attempts = @ + 1]),
                     !.calls = rest,
                     !.last = [on EXCEPT !.detail = "Invalid OTP code"]]
             ELSE [otp EXCEPT
                     !.records[i] =
                        [Saved(@, [this.latest_otp EXCEPT !.is_used = "true"])
                           EXCEPT !.wrong_at_use =
                                    IF updated THEN this.latest_otp.wrong ELSE @],
                     !.email_verified = IF updated THEN TRUE ELSE @,
                     !.calls = rest,
                     !.last = [on EXCEPT !.ok = updated,
                                 !.detail = IF updated THEN "Email verified"
                                            ELSE "Failed to activate account"]]
        /\ UNCHANGED <<side, clean, pw, rl, rp>>

NextOtp ==
  \/ TickOtp
  \/ SendOtp
  \/ VerifyOtpCode
  \/ VerifyOtpWrite

InitOtp ==
  /\ SideIdle
  /\ otp = NoOtp
  /\ clean = NoClean /\ pw = Unused /\ rl = Unused /\ rp = Unused

SpecOtp == InitOtp /\ [][NextOtp]_vars

(***************************************************************************)
(* Properties                                                              *)
(***************************************************************************)
\* the call in flight has returned, after a finished call, with the same ETag probed
SecondOfTwo ==
  /\ pc = "done" /\ call.head = "ok" /\ srcHasMeta
  /\ prev.valid /\ ~prev.force /\ ~call.force
  /\ prev.source_etag = call.source_etag

IsCacheHit == result.success /\ result.extraction_method = "cache" /\ call.ocr = "none"

VersionText(etag) == ProcessedText(ExtractedText(DocBlocks(etag)))

\* C2: after a call returned the text of the version it probed and the ETag changed,
\* the next force=False call is a miss: it is not answered from the cache
C2_StalenessDetected ==
  ( /\ pc = "done" /\ ~call.force /\ call.head = "ok"
    /\ prev.valid /\ prev.success /\ prev.source_etag # None
    /\ prev.text = VersionText(prev.source_etag)
    /\ prev.source_etag # call.source_etag )
    => ~(result.success /\ result.extraction_method = "cache")

C4_TimeoutBound ==
  job.timed_out => job.wall <= max_wait_time + wait_interval

\* C5: the OCR path writes the item only after its put of the raw extract succeeded
C5_StorageBeforeIndex ==
  (call.ocr = "SUCCEEDED" /\ call.index_update = "ok") => call.raw_put = "ok"

\* C6: the returned structured_json_s3_key is non-null iff the put of the
\* structured JSON succeeded in the same call
C6_JsonKeyIffPersisted ==
  (pc = "done" /\ result.success)
    => ((result.structured_json_s3_key # None) <=> (call.json_put = "ok"))

\* C7: whenever the generative step fails after text was obtained, the call still
\* returns success with the cleaned text and structured_json = None
C7_BestEffortStructured ==
  (pc = "done" /\ call.bedrock = "failed")
    => /\ result.success
       /\ result.structured_json = None
       /\ result.text = _clean_text(call.text)
       /\ result.structured_json_s3_key = None

C7_Witness ==
  /\ pc = "done" /\ call.bedrock = "failed" /\ result.success
  /\ result.text # <<>> /\ result.extraction_method = "cache"

\* C8: a failed read of the cached extract is a cache miss: the call goes on to OCR
C8_ReadFailureIsMiss ==
  (pc = "done" /\ call.read \notin {"none", "ok"}) => call.ocr # "none"

\* msg occurs verbatim in error
Carries(error, msg) ==
  \E i \in 1..Len(error) :
    i + Len(msg) - 1 <= Len(error) /\ SubSeq(error, i, i + Len(msg) - 1) = msg

\* C9: once a poll answered FAILED the job is over, no poll follows, the result is a
\* failure that carries the backend's StatusMessage verbatim, and the caller gets it
C9_FailedIsTerminal ==
  job.failed
    => /\ job.pc \in {"done", "returned"}
       /\ ~job.polled_after_failed
       /\ ~job.result.success
       /\ job.status_message # None => Carries(job.result.error, job.status_message)
       /\ job.pc = "returned" => (~result.success /\ result.error = job.result.error)

C9_Witness ==
  /\ job.failed /\ job.pc = "returned" /\ job.polls > 1
  /\ job.status_message # None /\ Carries(result.error, job.status_message)

C11_WriteFailuresNotFatal ==
  (pc = "done" /\ call.ocr = "SUCCEEDED")
    => (result.success /\ result.text = ProcessedText(call.text)
        /\ result.raw_text = call.text)

C11_Witness ==
  /\ pc = "done" /\ call.ocr = "SUCCEEDED" /\ call.text # <<>>
  /\ call.raw_put = "failed" /\ call.json_put = "failed" /\ call.index_update = "failed"
  /\ result.success

\* C14: a force=False call whose index lookup found no record for the file_id is
\* a cache miss: it submits OCR and reports method "async", even if a blob is
\* present at the deterministic path
C14_NoRecordIsMiss ==
  (pc = "done" /\ ~call.force /\ call.lookup = "ok" /\ ~pre.item.exists /\ result.success)
    => (call.ocr = "SUCCEEDED" /\ result.extraction_method = "async")

\* C15: after a successful call whose index update succeeded, cache hit or miss,
\* the record of the file_id holds the ETag probed in that call as source_etag,
\* together with the path of the raw-extract blob
C15_RecordHoldsProbedEtag ==
  (pc = "done" /\ result.success /\ call.index_update = "ok")
    => (item.exists /\ item.source_etag = call.source_etag
        /\ item.extract_key = call.extract_key)

\* C17: a lookup that raised or an index that is unavailable never ends the call
\* with an error, and leaves the call exactly where a lookup that found no record
\* for the file_id leaves it: same etag_matches, same next step (the cached read),
\* no result yet; every later step reads the call's locals and the blobs only
C17_LookupFailureAsNoRecord ==
  [][ (pc = "lookup" /\ pc' # "lookup" /\ call'.lookup \in {"raised", "disabled"})
        => /\ call'.etag_matches = EtagMatches(NoItem, call.source_etag)
           /\ pc' = (IF EtagMatches(NoItem, call.source_etag) THEN "cache_read" ELSE "ocr")
           /\ result' = result
           /\ call' = [call EXCEPT !.etag_matches = EtagMatches(NoItem, call.source_etag),
                                   !.lookup = call'.lookup] ]_vars

\* a record with another etag exists, the lookup raised, and the call ended as a
\* cache hit, as it does when there is no record
C17_Witness ==
  /\ pc = "done" /\ ~call.force /\ call.lookup = "raised"
  /\ pre.item.exists /\ pre.item.source_etag # None
  /\ pre.item.source_etag # call.source_etag
  /\ IsCacheHit

\* C16: when the OCR job SUCCEEDED and its result has zero LINE blocks, the call
\* returns a success with confidence 0 and text "", and no error
C16_BlankPage ==
  (pc = "done" /\ call.ocr = "SUCCEEDED" /\ LineBlocks(doc) = <<>>)
    => (result.success /\ result.confidence = 0 /\ result.text = <<>>
        /\ result.raw_text = <<>> /\ result.error = <<>>
        /\ result.extraction_method = "async")

C16_Witness ==
  /\ pc = "done" /\ call.ocr = "SUCCEEDED"
  /\ doc # <<>> /\ LineBlocks(doc) = <<>>
  /\ result.success /\ result.confidence = 0

\* both concurrent calls have returned and both were made with force=False
BothDone ==
  /\ pc = "done" /\ parked.pc = "done"
  /\ ~call.force /\ ~parked.call.force

\* ghost: no operation of the call failed (head, lookup, cached read, OCR job,
\* blob puts, index update)
NoFault(c) ==
  /\ Faultless(c)
  /\ c.ocr # "failed"
  /\ c.json_put # "failed"

\* what C12 promises of two finished calls
Benign ==
  /\ result.success /\ parked.result.success
  /\ result.text = parked.result.text
  /\ item.exists /\ item.source_etag = srcEtag
  /\ s3[ExtractKey(docType, UserId, FileId)] = Object(Utf8Encode(result.text))

C13_WaitSuspendsOnlyOwnTask ==
  (loop.extract = "sleep" /\ loop.other < MaxOtherSteps) => ENABLED OtherStep

\* C18: a refresh token a successful refresh was made with is rejected by
\* verify_token(token, "refresh") from then on
C18_RefreshTokenSingleUse ==
  \A token \in refreshed : verify_token(token, "refresh") # "ok"

\* C19: a successful refresh returns a refresh token different from the presented
\* one, leaves no active session holding the presented token, and has created a
\* session holding the new access/refresh pair
C19_RefreshRotation ==
  (last.op = "refresh" /\ last.ok)
    => /\ last.refresh_token # last.presented
       /\ \A i \in 1..Len(sessions) :
            sessions[i].refresh_token = last.presented => ~sessions[i].is_active
       /\ Len(sessions) = Len(last.before) + 1
       /\ sessions[Len(sessions)] = UserSession(last.access_token, last.refresh_token)

\* C20: an access token a successful logout was made with is rejected by
\* verify_token(token, "access") from then on
C20_LogoutInvalidatesToken ==
  \A token \in logged_out : verify_token(token, "access") # "ok"

\* C24: in every reachable state, if the record's source_etag is the ETag of the
\* source as it is now and the raw-extract blob exists, the blob holds the
\* cleaned OCR text of the current version
C24_CacheCoherence ==
  \A dt \in DocTypes :
    LET blob == s3[ExtractKey(dt, UserId, FileId)]
    IN  (item.exists /\ item.source_etag = srcEtag /\ item.extract_key = ExtractKey(dt, UserId, FileId)
         /\ blob.exists)
          => blob.body = Utf8Encode(VersionText(srcEtag))

\* the call in flight took its text from the stored blob
TookCache == call.read = "ok" /\ call.ocr = "none"

\* C25: a call that took its text from the cache leaves the raw-extract blobs and
\* the record's source_etag and extract_key as they were when it started
C25_CacheHitFrame ==
  TookCache
    => /\ \A dt \in DocTypes :
            s3[ExtractKey(dt, UserId, FileId)] = pre.s3[ExtractKey(dt, UserId, FileId)]
       /\ item.source_etag = pre.item.source_etag
       /\ item.extract_key = pre.item.extract_key
       /\ item.document_type = pre.item.document_type

\* a cache hit that wrote the structured JSON and updated the record
C25_Witness ==
  /\ pc = "done" /\ TookCache /\ IsCacheHit
  /\ call.json_put = "ok" /\ call.index_update = "ok"
  /\ s3 # pre.s3 /\ item # pre.item
  /\ pre.item.exists

\* C28: a call that returns success = False has written nothing: the blobs and
\* the index record are as they were when the call started
C28_FailureWritesNothing ==
  (pc = "done" /\ ~result.success) => (s3 = pre.s3 /\ item = pre.item)

\* a failed call on a file whose extract and record were stored by earlier calls
C28_Witness ==
  /\ pc = "done" /\ ~result.success /\ call.ocr = "failed"
  /\ call.read = "ClientError"
  /\ pre.item.exists /\ pre.s3[call.extract_key].exists
  /\ s3 = pre.s3 /\ item = pre.item

\* C26: _clean_text is idempotent, and the text a cache hit returns (the stored
\* cleaned text decoded and cleaned again) is the text the storing call returned
C26_CleanIdempotent ==
  /\ clean.stage \in {"stored", "reused"} => _clean_text(clean.once) = clean.once
  /\ clean.stage = "reused" => clean.twice = clean.once

\* a text that cleaning changes: an artifact between two spaces
C26_Witness ==
  /\ clean.stage = "reused"
  /\ clean.text = <<"a", " ", "/", " ", "0">>
  /\ clean.once = <<"a", " ", "O">> /\ clean.twice = clean.once

\* the number of polls the budget allows: 300 / 5
MaxPolls == max_wait_time \div wait_interval

\* C27: the polling loop makes at most 60 status polls; as long as it runs every
\* poll made was non-terminal and consumed one interval of the budget (a
\* terminal reply ends it at once); it can always go on, by a poll or by the
\* timeout; and a timeout is reported iff 60 polls were made and all were
\* non-terminal
C27_PollingTerminates ==
  /\ job.polls <= MaxPolls
  /\ job.pc = "loop" => job.elapsed_time = wait_interval * job.polls
  /\ job.pc = "loop" => ((ENABLED Poll) \/ (ENABLED TimeOut))
  /\ job.timed_out <=> /\ job.pc \in {"done", "returned"}
                       /\ job.polls = MaxPolls
                       /\ job.elapsed_time = wait_interval * job.polls
                       /\ job.result = AsyncFailure(TimedOutError)
  /\ (job.pc \in {"done", "returned"} /\ job.polls = MaxPolls /\ ~job.timed_out)
       => job.elapsed_time < max_wait_time

C27_Witness ==
  /\ job.pc = "done" /\ job.timed_out /\ job.polls = MaxPolls
  /\ job.result = AsyncFailure(TimedOutError)

\* the level the score is to give: 0 or 1 weak, 2 medium, 3 or 4 strong, 5 very strong
LevelOfScore(score) ==
  IF score <= 1 THEN "weak"
  ELSE IF score = 2 THEN "medium"
  ELSE IF score <= 4 THEN "strong"
  ELSE "very_strong"

\* C23: for a non-empty password the score is the number of satisfied criteria,
\* or 0 for a common password, and the level is weak for 0 and 1, medium for 2,
\* strong for 3 and 4, very_strong for 5
C23_ScoreToLevel ==
  (pw.stage = "returned" /\ pw.password # <<>>) =>
    /\ pw.response.strength_score =
         IF lower(pw.password) \in common_passwords THEN 0 ELSE pw.criteria
    /\ pw.response.strength_level = LevelOfScore(pw.response.strength_score)

\* C21: since the window of the store began, at most rate_limit_requests
\* requests of the client IP were passed on to the application
C21_AtMostLimitPerWindow ==
  rl.passed <= requests_per_minute


\* C22: a token returned by generate_password_reset is accepted by
\* reset_password exactly once: the first call with a policy-compliant password
\* before the expiry succeeds and changes the password, the token is then
\* cleared, and no later call with it succeeds
C22_ResetTokenOnce ==
  /\ \A t \in rp.returned : rp.accepted[t] <= 1
  /\ (rp.last.op = "reset_password" /\ rp.last.token \in rp.returned /\ rp.last.first)
       => /\ rp.last.ok
          /\ rp.last.changed
          /\ rp.user.password_hash = get_password_hash(rp.last.new_password)
          /\ rp.user.reset_token # rp.last.token

\* C30: a token issued by forgot-password, presented unused to reset-password
\* within its hour with an acceptable new password, is accepted and the
\* password is updated
C30_ForgotPasswordCompletes ==
  (/\ rp.last.op = "reset-password"
   /\ rp.last.token \in rp.mailed
   /\ rp.last.first
   /\ rp.last.in_time
   /\ PolicyValid(rp.last.new_password))
    => /\ rp.last.ok
       /\ rp.user.password_hash = get_password_hash(rp.last.new_password)


\* C29: at most 3 wrong codes are ever compared with an OTP record, and a
\* record 3 wrong codes were submitted for does not activate the account
C29_ThreeWrongCodes ==
  \A i \in 1..Len(otp.records) :
    /\ otp.records[i].wrong <= MaxAttempts
    /\ otp.records[i].wrong_at_use < MaxAttempts


====
